---------------------------- MODULE Spec2Model ----------------------------
(***************************************************************************)
(* A model of src/app.py: the archive member selection                     *)
(* (extract_csv_from_zipbytes), the table parser and extreme finder        *)
(* (parse_and_find_extremes) and the Streamlit script with its             *)
(* session_state.                                                          *)
(*                                                                         *)
(* Text is a sequence of one-character strings, so that strip(), lower(),  *)
(* str.replace() and the numeric parse are computed character by           *)
(* character.  A float is an integer number of tenths; the texts drawn     *)
(* below carry at most one fractional digit.                               *)
(***************************************************************************)
EXTENDS Integers, Sequences, FiniteSets, TLC

VARIABLES
    pc,       \* position of the function call under test: "call" or "done"
    args,     \* the arguments of the call
    ret,      \* what the call returned or raised
    picker,   \* the date shown in the st.date_input widget
    ss,       \* st.session_state
    page      \* what the last script run put on the page

vars == <<pc, args, ret, picker, ss, page>>

(***************************************************************************)
(* Bounds of the model.                                                    *)
(***************************************************************************)
MaxRows == 2
MaxCols == 14
MaxMembers == 3
MaxDate == 3

(***************************************************************************)
(* Python str and pandas scalar values.                                    *)
(***************************************************************************)
Digits == <<"0", "1", "2", "3", "4", "5", "6", "7", "8", "9">>
UpperChars == <<"A", "B", "C", "D", "E", "F", "G", "H", "I", "J", "K", "L", "M",
                "N", "O", "P", "Q", "R", "S", "T", "U", "V", "W", "X", "Y", "Z">>
LowerChars == <<"a", "b", "c", "d", "e", "f", "g", "h", "i", "j", "k", "l", "m",
                "n", "o", "p", "q", "r", "s", "t", "u", "v", "w", "x", "y", "z">>

\* a float: a number (in tenths), NaN, or Python's None
\* (every scalar is a record of the same shape, so that any two compare)
Num(v) == [k |-> "num", s |-> <<>>, v |-> v]
NaN == [k |-> "nan", s |-> <<>>, v |-> 0]
None == [k |-> "none", s |-> <<>>, v |-> 0]
IsNum(x) == x.k = "num"

\* a cell of a dtype=str column: a str, or NaN for a missing value
Str(s) == [k |-> "str", s |-> s, v |-> 0]

IsSpace(c) == c \in {" ", "\t"}

RECURSIVE LStrip(_)
LStrip(s) == IF s # <<>> /\ IsSpace(Head(s)) THEN LStrip(Tail(s)) ELSE s

RECURSIVE RStrip(_)
RStrip(s) ==
    IF s # <<>> /\ IsSpace(s[Len(s)]) THEN RStrip(SubSeq(s, 1, Len(s) - 1)) ELSE s

\* str.strip()
Strip(s) == RStrip(LStrip(s))

LowerChar(c) ==
    IF \E i \in DOMAIN UpperChars : UpperChars[i] = c
    THEN LowerChars[CHOOSE i \in DOMAIN UpperChars : UpperChars[i] = c]
    ELSE c

\* str.lower()
Lower(s) == [i \in DOMAIN s |-> LowerChar(s[i])]

\* str.endswith(suffix)
EndsWith(s, suffix) ==
    /\ Len(s) >= Len(suffix)
    /\ SubSeq(s, Len(s) - Len(suffix) + 1, Len(s)) = suffix

\* str.replace(",", ".")
ReplaceComma(s) == [i \in DOMAIN s |-> IF s[i] = "," THEN "." ELSE s[i]]

IsDigit(c) == \E i \in DOMAIN Digits : Digits[i] = c
DigitVal(c) == (CHOOSE i \in DOMAIN Digits : Digits[i] = c) - 1
AllDigits(s) == \A i \in DOMAIN s : IsDigit(s[i])

RECURSIVE NatOf(_)
NatOf(s) == IF s = <<>> THEN 0 ELSE 10 * NatOf(SubSeq(s, 1, Len(s) - 1)) + DigitVal(s[Len(s)])

\* The decimal reading of a text, in tenths: [sign] digits [ "." [digit] ],
\* NaN for any other text ("", "abc", "nan", "12,5").
ParseDecimal(s) ==
    LET signed == s # <<>> /\ s[1] \in {"-", "+"}
        body == IF signed THEN Tail(s) ELSE s
        dots == {i \in DOMAIN body : body[i] = "."}
        p == IF dots = {} THEN Len(body) + 1 ELSE CHOOSE i \in dots : \A j \in dots : i <= j
        ip == SubSeq(body, 1, p - 1)
        fp == SubSeq(body, p + 1, Len(body))
        mag == 10 * NatOf(ip) + (IF fp = <<>> THEN 0 ELSE DigitVal(fp[1]))
    IN  IF /\ AllDigits(ip) /\ AllDigits(fp)
           /\ Len(ip) + Len(fp) >= 1
           /\ Len(fp) <= 1
        THEN Num(IF signed /\ s[1] = "-" THEN 0 - mag ELSE mag)
        ELSE NaN

\* Series.astype(str) on one cell: a missing value becomes the text "nan"
AsStr(c) == IF c.k = "nan" THEN <<"n", "a", "n">> ELSE c.s

\* Series.str.replace(",", ".", regex=False) on one cell: NaN stays NaN
StrReplaceComma(c) == IF c.k = "nan" THEN c ELSE Str(ReplaceComma(c.s))

\* pd.to_numeric(errors="coerce") on one cell
ToNumeric(c) == IF c.k = "nan" THEN NaN ELSE ParseDecimal(c.s)

\* the sentinel replaced by to_float: s2.replace({"-999": pd.NA})
SentinelText == <<"-", "9", "9", "9">>

\* to_float on one cell (src lines 74-78)
ToFloat(c) ==
    LET s1 == Strip(AsStr(c))
        s2 == IF s1 = <<>> THEN NaN ELSE Str(s1)
        s3 == IF s2 = Str(SentinelText) THEN NaN ELSE s2
        s4 == StrReplaceComma(s3)
    IN  ToNumeric(s4)

(***************************************************************************)
(* The DataFrame: its column labels in order, and one sequence of cells    *)
(* per column.                                                             *)
(***************************************************************************)

\* pd.read_csv(sep=";", dtype=str, header=0) and the strip of the labels
\* (src lines 45-46).  csv_text is the table already split at ";" and at the
\* line ends: its header and its rows, every row as long as the header.  An
\* empty field is read as NaN.
ReadCsv(csv_text) ==
    [columns |-> [c \in DOMAIN csv_text.header |-> Strip(csv_text.header[c])],
     data |-> [c \in DOMAIN csv_text.header |->
                  [r \in DOMAIN csv_text.rows |->
                      IF csv_text.rows[r][c] = <<>> THEN NaN
                      ELSE Str(csv_text.rows[r][c])]]]

HasCol(df, name) == \E c \in DOMAIN df.columns : df.columns[c] = name
ColIndex(df, name) == CHOOSE c \in DOMAIN df.columns : df.columns[c] = name

\* df[name]
Col(df, name) == df.data[ColIndex(df, name)]

\* df[name] = values: an existing column is overwritten in place, a new one
\* is appended
SetCol(df, name, values) ==
    IF HasCol(df, name)
    THEN [df EXCEPT !.data[ColIndex(df, name)] = values]
    ELSE [columns |-> Append(df.columns, name), data |-> Append(df.data, values)]

T_station_number == <<"s","t","a","t","i","o","n","_","n","u","m","b","e","r">>
T_station_name == <<"s","t","a","t","i","o","n","_","n","a","m","e">>
T_station_full == <<"s","t","a","t","i","o","n","_","f","u","l","l">>
T_lat == <<"l","a","t">>
T_latitude == <<"l","a","t","i","t","u","d","e">>
T_lon == <<"l","o","n">>
T_longitude == <<"l","o","n","g","i","t","u","d","e">>
T_long == <<"l","o","n","g">>
T_min_val == <<"m","i","n","_","v","a","l">>
T_max_val == <<"m","a","x","_","v","a","l">>

\* Series.astype(str).str.strip()
StrStrip(values) == [r \in DOMAIN values |-> Str(Strip(AsStr(values[r])))]

\* station_name + " (" + station_number + ")" (src line 55)
StationFull(name, number) == Str(name.s \o <<" ", "(">> \o number.s \o <<")">>)

\* WithStations, were the number left out of the label
WithStationsNameOnly(df) ==
    LET df1 == SetCol(df, T_station_number, StrStrip(df.data[2]))
        df2 == SetCol(df1, T_station_name, StrStrip(df1.data[3]))
    IN  SetCol(df2, T_station_full, Col(df2, T_station_name))

\* src lines 51-55: the station columns, taken from the 2nd and 3rd column
WithStations(df) ==
    LET df1 == SetCol(df, T_station_number, StrStrip(df.data[2]))
        df2 == SetCol(df1, T_station_name, StrStrip(df1.data[3]))
        name == Col(df2, T_station_name)
        number == Col(df2, T_station_number)
    IN  SetCol(df2, T_station_full,
               [r \in DOMAIN name |-> StationFull(name[r], number[r])])

\* the offsets of the K and M columns (src lines 60, 61)
MinColOffset == 10
MaxColOffset == 12

\* MinCol, were the code to look for a minimum-temperature header first
MinTokens == {<<"t","n">>, <<"t","n","2","4">>, <<"m","i","n">>, <<"m","i","n","i","m","u","m">>}
MinColByName(df) ==
    LET named == SelectSeq(df.columns, LAMBDA c : Lower(Strip(c)) \in MinTokens)
    IN  IF named # <<>> THEN named[1] ELSE df.columns[MinColOffset + 1]

\* src line 60: min_col = df.columns[10]
MinCol(df) == df.columns[MinColOffset + 1]

\* src line 61: max_col = df.columns[12]
MaxCol(df) == df.columns[MaxColOffset + 1]

LatCandidates(df) == SelectSeq(df.columns, LAMBDA c : Lower(c) \in {T_lat, T_latitude})
LonCandidates(df) ==
    SelectSeq(df.columns, LAMBDA c : Lower(c) \in {T_lon, T_longitude, T_long})

\* pd.to_numeric(df[c].str.replace(",", ".", regex=False), errors="coerce")
CoordColumn(values) == [r \in DOMAIN values |-> ToNumeric(StrReplaceComma(values[r]))]

\* src lines 64-71
WithCoords(df) ==
    IF LatCandidates(df) # <<>> /\ LonCandidates(df) # <<>>
    THEN LET lat == CoordColumn(Col(df, LatCandidates(df)[1]))
             dfl == SetCol(df, T_lat, lat)
             lon == CoordColumn(Col(dfl, LonCandidates(df)[1]))
         IN  SetCol(dfl, T_lon, lon)
    ELSE LET n == DOMAIN df.data[1]
         IN  SetCol(SetCol(df, T_lat, [r \in n |-> None]), T_lon, [r \in n |-> None])

\* to_float on a column
ToFloatColumn(values) == [r \in DOMAIN values |-> ToFloat(values[r])]

\* Series.dropna().size
DropNaSize(values) == Cardinality({r \in DOMAIN values : IsNum(values[r])})

\* IdxMin, were it to return the last label of the least value
IdxMinLast(values) ==
    CHOOSE i \in DOMAIN values :
        /\ IsNum(values[i])
        /\ \A j \in DOMAIN values : IsNum(values[j]) => values[i].v <= values[j].v
        /\ \A j \in (i + 1)..Len(values) : IsNum(values[j]) => values[j].v # values[i].v

\* Series.idxmin(): the first label of the least value, NaN skipped
IdxMin(values) ==
    CHOOSE i \in DOMAIN values :
        /\ IsNum(values[i])
        /\ \A j \in DOMAIN values : IsNum(values[j]) => values[i].v <= values[j].v
        /\ \A j \in 1..(i - 1) : IsNum(values[j]) => values[j].v # values[i].v

\* Series.idxmax(): the first label of the greatest value, NaN skipped
IdxMax(values) ==
    CHOOSE i \in DOMAIN values :
        /\ IsNum(values[i])
        /\ \A j \in DOMAIN values : IsNum(values[j]) => values[i].v >= values[j].v
        /\ \A j \in 1..(i - 1) : IsNum(values[j]) => values[j].v # values[i].v

\* min_res = None, max_res = None
NoResult == [present |-> FALSE, value |-> 0, station |-> <<>>, lat |-> None, lon |-> None]

\* src lines 89-94 and 98-103: the dict built from row idx
ResultOf(df, idx, valcol) ==
    [present |-> TRUE,
     value |-> Col(df, valcol)[idx].v,
     station |-> Col(df, T_station_full)[idx].s,
     lat |-> Col(df, T_lat)[idx],
     lon |-> Col(df, T_lon)[idx]]

\* MinResult, were it to need a maximum value as well
MinResultCoupled(df) ==
    IF DropNaSize(Col(df, T_min_val)) > 0 /\ DropNaSize(Col(df, T_max_val)) > 0
    THEN ResultOf(df, IdxMin(Col(df, T_min_val)), T_min_val)
    ELSE NoResult

\* src lines 87-94
MinResult(df) ==
    IF DropNaSize(Col(df, T_min_val)) > 0
    THEN ResultOf(df, IdxMin(Col(df, T_min_val)), T_min_val)
    ELSE NoResult

\* src lines 96-103
MaxResult(df) ==
    IF DropNaSize(Col(df, T_max_val)) > 0
    THEN ResultOf(df, IdxMax(Col(df, T_max_val)), T_max_val)
    ELSE NoResult

\* src line 105
DfMap(df) ==
    [r \in DOMAIN df.data[1] |->
        [station |-> Col(df, T_station_full)[r].s,
         lat |-> Col(df, T_lat)[r],
         lon |-> Col(df, T_lon)[r],
         min_val |-> Col(df, T_min_val)[r],
         max_val |-> Col(df, T_max_val)[r]]]

Raised(e) == [raised |-> e, min_res |-> NoResult, max_res |-> NoResult, df_map |-> <<>>]

\* src lines 44-107
ParseAndFindExtremes(csv_text) ==
    LET df0 == ReadCsv(csv_text)
    IN  IF Len(df0.columns) < 3 THEN Raised("ValueError: B, C")
        ELSE LET df1 == WithStations(df0)
             IN  IF Len(df1.columns) <= MaxColOffset THEN Raised("ValueError: K, M")
                 ELSE LET min_col == MinCol(df1)
                          max_col == MaxCol(df1)
                          df2 == WithCoords(df1)
                          df3 == SetCol(df2, T_min_val, ToFloatColumn(Col(df2, min_col)))
                          df4 == SetCol(df3, T_max_val, ToFloatColumn(Col(df3, max_col)))
                      IN  [raised |-> "",
                           min_res |-> MinResult(df4),
                           max_res |-> MaxResult(df4),
                           df_map |-> DfMap(df4)]

(***************************************************************************)
(* The tables the parser is called with.                                   *)
(***************************************************************************)
T_empty == <<>>
T_m999 == <<"-", "9", "9", "9">>
T_m999_padded == <<" ", "-", "9", "9", "9", " ">>
T_m999_dot0 == <<"-", "9", "9", "9", ".", "0">>
T_m999_comma0 == <<"-", "9", "9", "9", ",", "0">>
T_m5_comma2 == <<"-", "5", ",", "2">>
T_m2_dot0 == <<"-", "2", ".", "0">>
T_9_comma4 == <<"9", ",", "4">>
T_abc == <<"a", "b", "c">>
T_47_dot5 == <<"4", "7", ".", "5">>
T_47_comma5 == <<"4", "7", ",", "5">>
T_19_dot0 == <<"1", "9", ".", "0">>

\* texts of the minimum column and of the maximum column
MinTexts ==
    {T_empty, T_m999, T_m999_padded, T_m999_dot0, T_m999_comma0,
     T_m5_comma2, T_m2_dot0, T_abc}
MaxTexts == {T_empty, T_m999_comma0, T_9_comma4}

\* latitude and longitude texts of a row
CoordTexts ==
    {<<T_47_dot5, T_19_dot0>>, <<T_47_comma5, T_empty>>,
     <<T_empty, T_19_dot0>>, <<T_abc, T_19_dot0>>}

\* the two-digit text of a column offset, and a cell text that tells its
\* column offset c and its row r apart from every other cell: "<c>.<r>"
TwoDigits(c) == <<Digits[(c \div 10) + 1], Digits[(c % 10) + 1]>>
PlainCell(r, c) == TwoDigits(c) \o <<".", Digits[r + 1]>>
PlainHeader(c) == <<"c">> \o TwoDigits(c)

\* the station of row r: its name (with blanks around it) and its number
NameText(r) == <<" ", "S", "t", Digits[r + 1], " ">>
NumberText(r) == <<" ", "1", "2", "9", Digits[r + 1]>>

\* Header layouts: the labels that differ from the plain ones, by column
\* offset, and the offsets of the latitude and longitude columns (-1: none).
H_StationNumber == <<"S","t","a","t","i","o","n","N","u","m","b","e","r">>
H_StationName == <<"S","t","a","t","i","o","n","N","a","m","e">>
H_Tn == <<" ", "T", "n", " ">>
H_tx == <<"t", "x">>
H_Lat == <<"L", "a", "t">>
H_LON == <<"L", "O", "N">>

Layouts ==
    {[id |-> "plain", labels |-> {}, lat |-> -1, lon |-> -1],
     [id |-> "named",
      labels |-> {<<1, H_StationNumber>>, <<2, H_StationName>>, <<3, H_Tn>>, <<4, H_tx>>},
      lat |-> -1, lon |-> -1],
     [id |-> "coords", labels |-> {<<5, H_Lat>>, <<6, H_LON>>}, lat |-> 5, lon |-> 6],
     [id |-> "latonly", labels |-> {<<5, T_latitude>>}, lat |-> 5, lon |-> -1],
     [id |-> "lononly", labels |-> {<<6, T_lon>>}, lat |-> -1, lon |-> 6]}

PlainLayout == CHOOSE l \in Layouts : l.id = "plain"

HeaderOf(layout, c) ==
    IF \E p \in layout.labels : p[1] = c
    THEN (CHOOSE p \in layout.labels : p[1] = c)[2]
    ELSE PlainHeader(c)

\* the cell of row r (from 1) at column offset c (from 0); row is the row's
\* texts for the station, temperature and coordinate columns
CellOf(layout, row, r, c) ==
    CASE c = 1 -> row.number
      [] c = 2 -> row.name
      [] c = MinColOffset -> row.k
      [] c = MaxColOffset -> row.m
      [] c = layout.lat /\ c \notin {1, 2, MinColOffset, MaxColOffset} -> row.lat
      [] c = layout.lon /\ c \notin {1, 2, MinColOffset, MaxColOffset} -> row.lon
      [] OTHER -> PlainCell(r, c)

MkTable(ncols, layout, rows) ==
    [ncols |-> ncols,
     layout |-> layout.id,
     header |-> [c1 \in 1..ncols |-> HeaderOf(layout, c1 - 1)],
     rows |-> [r \in DOMAIN rows |->
                  [c1 \in 1..ncols |-> CellOf(layout, rows[r], r, c1 - 1)]]]

SeqsUpTo(S, n) == UNION {[1..m -> S] : m \in 0..n}

\* rows that vary in their temperature texts
TempRows ==
    {[k |-> k, m |-> m] : k \in MinTexts, m \in MaxTexts}

\* rows that vary in their coordinates and in whether the number is there
StationRows ==
    {[coords |-> xy, numbered |-> b] : xy \in CoordTexts, b \in BOOLEAN}

FillTemp(rows) ==
    [r \in DOMAIN rows |->
        [number |-> NumberText(r), name |-> NameText(r),
         k |-> rows[r].k, m |-> rows[r].m,
         lat |-> T_47_dot5, lon |-> T_19_dot0]]

FillStation(rows) ==
    [r \in DOMAIN rows |->
        [number |-> IF rows[r].numbered THEN NumberText(r) ELSE T_empty,
         name |-> NameText(r),
         k |-> PlainCell(r, MinColOffset), m |-> PlainCell(r, MaxColOffset),
         lat |-> rows[r].coords[1], lon |-> rows[r].coords[2]]]

(***************************************************************************)
(* Calls of parse_and_find_extremes.                                       *)
(***************************************************************************)
Idle == [data_loaded |-> FALSE]

InitExtremes ==
    /\ pc = "call"
    /\ args \in {MkTable(n, PlainLayout, FillTemp(rows)) :
                    n \in {MaxColOffset + 1}, rows \in SeqsUpTo(TempRows, MaxRows)}
    /\ ret = Raised("")
    /\ picker = 0 /\ ss = Idle /\ page = Idle

InitSchema ==
    /\ pc = "call"
    /\ args \in {MkTable(n, l, FillStation(rows)) :
                    n \in 1..MaxCols, l \in Layouts,
                    rows \in SeqsUpTo(StationRows, MaxRows)}
    /\ ret = Raised("")
    /\ picker = 0 /\ ss = Idle /\ page = Idle

CallParse ==
    /\ pc = "call"
    /\ ret' = ParseAndFindExtremes(args)
    /\ pc' = "done"
    /\ UNCHANGED <<args, picker, ss, page>>

SpecExtremes == InitExtremes /\ [][CallParse]_vars
SpecSchema == InitSchema /\ [][CallParse]_vars

(***************************************************************************)
(* Properties of parse_and_find_extremes.                                  *)
(***************************************************************************)
Returned == pc = "done" /\ ret.raised = ""

\* the field of source row r at column offset c, as read_csv reads it
SrcCell(r, c) == IF args.rows[r][c + 1] = <<>> THEN NaN ELSE Str(args.rows[r][c + 1])

\* The cleansing of a temperature text: trimmed; absent when empty, when the
\* sentinel text, or when not a number after the decimal comma is replaced.
Cleaned(text) ==
    LET t == Strip(text)
    IN  IF t = <<>> \/ t = SentinelText THEN NaN ELSE ParseDecimal(ReplaceComma(t))

CleanedMin(r) == Cleaned(args.rows[r][MinColOffset + 1])
CleanedMax(r) == Cleaned(args.rows[r][MaxColOffset + 1])
RowsWithMin == {r \in DOMAIN args.rows : IsNum(CleanedMin(r))}
RowsWithMax == {r \in DOMAIN args.rows : IsNum(CleanedMax(r))}

\* C1: the minimum result is the value and the station label of the first
\* row, in source order, whose cleaned minimum value is the least among the
\* rows that have one; the maximum result is that of the first row whose
\* cleaned maximum value is the greatest among the rows that have one.
C1_FirstExtremeRow ==
    Returned =>
        /\ RowsWithMin # {} =>
              \E i \in RowsWithMin :
                  /\ \A j \in RowsWithMin : CleanedMin(i).v <= CleanedMin(j).v
                  /\ \A j \in RowsWithMin : j < i => CleanedMin(j).v # CleanedMin(i).v
                  /\ ret.min_res.present
                  /\ ret.min_res.value = CleanedMin(i).v
                  /\ ret.min_res.station = ret.df_map[i].station
        /\ RowsWithMax # {} =>
              \E i \in RowsWithMax :
                  /\ \A j \in RowsWithMax : CleanedMax(i).v >= CleanedMax(j).v
                  /\ \A j \in RowsWithMax : j < i => CleanedMax(j).v # CleanedMax(i).v
                  /\ ret.max_res.present
                  /\ ret.max_res.value = CleanedMax(i).v
                  /\ ret.max_res.station = ret.df_map[i].station

\* two rows tie for the minimum and two for the maximum, and a result came back
C1_TieWitness ==
    /\ Returned
    /\ \E i, j \in RowsWithMin :
          /\ i < j /\ CleanedMin(i) = CleanedMin(j)
          /\ ret.min_res.value = CleanedMin(i).v
          /\ ret.df_map[i].station # ret.df_map[j].station
    /\ \E i, j \in RowsWithMax :
          /\ i < j /\ CleanedMax(i) = CleanedMax(j)
          /\ ret.max_res.value = CleanedMax(i).v

\* C2: whatever the spelling of the sentinel -999 in a temperature column,
\* the value of the minimum result and of the maximum result is never -999.
C2_SentinelNeverWins ==
    Returned =>
        /\ ret.min_res.present => ret.min_res.value # -9990
        /\ ret.max_res.present => ret.max_res.value # -9990

\* C7: the minimum result is absent exactly when no row has a present
\* minimum value, whatever the maximum column holds, and the same for the
\* maximum result; a table without data rows gives two absent results and
\* no exception.
C7_AbsentIffNoValue ==
    pc = "done" =>
        /\ ret.raised = ""
        /\ ret.min_res.present <=> RowsWithMin # {}
        /\ ret.max_res.present <=> RowsWithMax # {}
        /\ args.rows = <<>> => ~ret.min_res.present /\ ~ret.max_res.present

\* rows with maximum values and no minimum value: only the maximum came back
C7_OnlyMaxWitness ==
    /\ Returned
    /\ args.rows # <<>>
    /\ RowsWithMin = {} /\ RowsWithMax # {}
    /\ ~ret.min_res.present /\ ret.max_res.present

\* the label the code gives source row r, from the texts of the row
LabelOf(r) ==
    Strip(AsStr(SrcCell(r, 2))) \o <<" ", "(">> \o Strip(AsStr(SrcCell(r, 1))) \o <<")">>

\* The cell of row r at column offset c of the table as it stands after the
\* station columns were appended to the args.ncols source columns.
ExtCell(r, c) ==
    CASE c < args.ncols -> SrcCell(r, c)
      [] c = args.ncols -> Str(Strip(AsStr(SrcCell(r, 1))))
      [] c = args.ncols + 1 -> Str(Strip(AsStr(SrcCell(r, 2))))
      [] OTHER -> Str(LabelOf(r))

Contains(s, sub) ==
    \E i \in 1..(Len(s) - Len(sub) + 1) : SubSeq(s, i, i + Len(sub) - 1) = sub

\* the offsets of the headers that name a minimum / maximum temperature
MaxTokens == {<<"t","x">>, <<"t","x","2","4">>, <<"m","a","x">>, <<"m","a","x","i","m","u","m">>}
NamedOffsets(tokens) ==
    {c \in 0..(args.ncols - 1) : Lower(Strip(args.header[c + 1])) \in tokens}
First(S) == CHOOSE c \in S : \A d \in S : c <= d
ResolvedOffset(tokens, fallback) ==
    IF NamedOffsets(tokens) # {} THEN First(NamedOffsets(tokens)) ELSE fallback

\* C3: with the temperature columns taken by position, the parse fails for
\* every source table of fewer than 13 columns, and otherwise reads the
\* source's 11th and 13th column.
C3_SchemaErrorBelow13 ==
    pc = "done" =>
        IF args.ncols < MaxColOffset + 1
        THEN ret.raised # ""
        ELSE /\ ret.raised = ""
             /\ \A r \in DOMAIN args.rows :
                   /\ ret.df_map[r].min_val = ToFloat(SrcCell(r, MinColOffset))
                   /\ ret.df_map[r].max_val = ToFloat(SrcCell(r, MaxColOffset))

NumberMarker == <<"n","u","m","b","e","r">>
HasNumberHeader == \E c \in DOMAIN args.header : Contains(Lower(args.header[c]), NumberMarker)

C6_CoordsBothOrNeither ==
    (Returned /\ args.ncols >= MaxColOffset + 1) =>
        /\ ret.min_res.present => (IsNum(ret.min_res.lat) <=> IsNum(ret.min_res.lon))
        /\ ret.max_res.present => (IsNum(ret.max_res.lat) <=> IsNum(ret.max_res.lon))

(***************************************************************************)
(* extract_csv_from_zipbytes.  An archive is the sequence of its members  *)
(* in archive order, each a name and a content; member names are distinct. *)
(***************************************************************************)
T_dot_csv == <<".", "c", "s", "v">>
T_dot_zip == <<".", "z", "i", "p">>
NoName == <<>>

\* z.namelist()
NameList(z) == [i \in DOMAIN z |-> z[i].name]

\* z.open(name).read()
ReadMember(z, name) == z[CHOOSE i \in DOMAIN z : z[i].name = name].content

Found(text) == [raised |-> "", text |-> text]
NotFound == [raised |-> "FileNotFoundError", text |-> <<>>]

\* the loop of src lines 38-41 over the names from position i on
RECURSIVE FirstCsv(_, _)
FirstCsv(z, i) ==
    IF i > Len(z) THEN NotFound
    ELSE IF EndsWith(Lower(NameList(z)[i]), T_dot_csv)
         THEN Found(ReadMember(z, NameList(z)[i]))
         ELSE FirstCsv(z, i + 1)

\* ExtractCsvFromZipbytes, were the expected name not looked for
ExtractFirstCsvOnly(z, expected_csv_name) == FirstCsv(z, 1)

\* src lines 33-42
ExtractCsvFromZipbytes(z, expected_csv_name) ==
    IF /\ expected_csv_name # NoName
       /\ \E i \in DOMAIN z : NameList(z)[i] = expected_csv_name
    THEN Found(ReadMember(z, expected_csv_name))
    ELSE FirstCsv(z, 1)

\* a calendar date is a day 1..MaxDate of March 2024
Dates == 1..MaxDate

\* date_obj.strftime("%Y%m%d")
Ymd(d) == <<"2", "0", "2", "4", "0", "3", "0", Digits[d + 1]>>

\* date_obj.strftime("%Y.%m.%d")
YmdDotted(d) == <<"2", "0", "2", "4", ".", "0", "3", ".", "0", Digits[d + 1]>>

\* src lines 24-26
BuildFilenameForDate(d) ==
    <<"H", "A", "B", "P", "_", "1", "D", "_">> \o Ymd(d) \o <<".", "c", "s", "v", ".", "z", "i", "p">>

\* str.replace(old, ""): every occurrence of old removed, left to right
RECURSIVE RemoveAll(_, _)
RemoveAll(s, old) ==
    IF Len(s) < Len(old) THEN s
    ELSE IF SubSeq(s, 1, Len(old)) = old
         THEN RemoveAll(SubSeq(s, Len(old) + 1, Len(s)), old)
         ELSE <<Head(s)>> \o RemoveAll(Tail(s), old)

\* src line 136: fname.replace(".zip", "")
ExpectedCsvName(fname) == RemoveAll(fname, T_dot_zip)

\* member names of the archives drawn
MemberNames ==
    {ExpectedCsvName(BuildFilenameForDate(1)),
     <<"d", "a", "t", "a", ".", "c", "s", "v">>,
     <<"D", "A", "T", "A", ".", "C", "S", "V">>,
     <<"r", "e", "a", "d", "m", "e", ".", "t", "x", "t">>,
     <<"c", "s", "v">>}

\* the archives of up to MaxMembers members, no name twice, the content of
\* the member at position i being the text "#i"
Archives ==
    {[i \in DOMAIN names |-> [name |-> names[i], content |-> <<"#", Digits[i + 1]>>]] :
        names \in {ns \in SeqsUpTo(MemberNames, MaxMembers) :
                      \A i, j \in DOMAIN ns : i # j => ns[i] # ns[j]}}

InitZip ==
    /\ pc = "call"
    /\ args \in {[zip |-> z, expected_csv_name |-> e] :
                    z \in Archives,
                    e \in {NoName, ExpectedCsvName(BuildFilenameForDate(1))}}
    /\ ret = NotFound
    /\ picker = 0 /\ ss = Idle /\ page = Idle

CallExtract ==
    /\ pc = "call"
    /\ ret' = ExtractCsvFromZipbytes(args.zip, args.expected_csv_name)
    /\ pc' = "done"
    /\ UNCHANGED <<args, picker, ss, page>>

SpecZip == InitZip /\ [][CallExtract]_vars

IsCsvMember(m) == EndsWith(Lower(m.name), T_dot_csv)
ExpectedAt == {i \in DOMAIN args.zip :
                  args.expected_csv_name # NoName /\ args.zip[i].name = args.expected_csv_name}
CsvAt == {i \in DOMAIN args.zip : IsCsvMember(args.zip[i])}

\* C8: the content of the member named as expected is returned whenever
\* there is one, wherever it stands; otherwise the content of the first
\* member, in archive order, whose name ends in .csv (in any case of the
\* letters); the call fails exactly when there is neither.
C8_ExpectedThenFirstCsv ==
    pc = "done" =>
        /\ ExpectedAt # {} => \E i \in ExpectedAt : ret = Found(args.zip[i].content)
        /\ (ExpectedAt = {} /\ CsvAt # {}) => ret = Found(args.zip[First(CsvAt)].content)
        /\ ret.raised # "" <=> (ExpectedAt = {} /\ CsvAt = {})

\* the expected member stands behind another .csv member and was returned
C8_ExpectedBehindWitness ==
    /\ pc = "done"
    /\ \E i \in ExpectedAt :
          /\ \E j \in CsvAt : j < i
          /\ ret = Found(args.zip[i].content)

(***************************************************************************)
(* The Streamlit script (src lines 117-212).  Every user action reruns the *)
(* whole script: the session_state initialisation, the date picker, the    *)
(* button handler and the render block.                                    *)
(***************************************************************************)

\* What the server may answer for a date: the zip bytes it serves are known
\* by the date and by the kind of archive they hold.
ArchiveKinds == {"expected", "renamed", "nocsv", "narrow"}
NoBytes == [date |-> 0, kind |-> "none"]
NoText == MkTable(0, PlainLayout, <<>>)

\* the table published for date d: the minimum is -d.2 and the maximum d.4
TableFor(d) ==
    MkTable(MaxColOffset + 1, PlainLayout,
            FillTemp(<<[k |-> <<"-", Digits[d + 1], ".", "2">>, m |-> <<Digits[d + 1], ",", "4">>],
                       [k |-> T_m999, m |-> T_empty]>>))

\* a table of two columns
NarrowTable == MkTable(2, PlainLayout, FillTemp(<<[k |-> T_empty, m |-> T_empty]>>))

\* zipfile.ZipFile(io.BytesIO(zip_bytes)): the members of the bytes served
ZipFile(zip_bytes) ==
    LET expected == ExpectedCsvName(BuildFilenameForDate(zip_bytes.date))
        readme == [name |-> <<"r", "e", "a", "d", "m", "e", ".", "t", "x", "t">>,
                   content |-> NoText]
    IN  CASE zip_bytes.kind = "expected" ->
                <<readme, [name |-> expected, content |-> TableFor(zip_bytes.date)]>>
          [] zip_bytes.kind = "renamed" ->
                <<[name |-> <<"d", "a", "t", "a", ".", "C", "S", "V">>,
                   content |-> TableFor(zip_bytes.date)]>>
          [] zip_bytes.kind = "narrow" ->
                <<[name |-> expected, content |-> NarrowTable]>>
          [] OTHER -> <<readme>>

\* the answers to requests.get(url, timeout=30): an error, or zip bytes
Responses(d) ==
    {[error |-> "HTTPError", content |-> NoBytes]}
        \cup {[error |-> "", content |-> [date |-> d, kind |-> k]] : k \in ArchiveKinds}

\* no download is made by a run in which the button is not pressed
NoResponse == [error |-> "", content |-> NoBytes]

\* src lines 117-122
FreshSession ==
    [data_loaded |-> FALSE, zip_bytes |-> NoBytes, csv_text |-> NoText,
     min_res |-> NoResult, max_res |-> NoResult, df_map |-> <<>>, date_selected |-> 0]

\* The button handler (src lines 131-140) runs in three stages.  run is the
\* session_state so far and the exception raised so far, if any: a stage
\* after an exception is skipped, and the assignments made before the
\* exception stay.

NoError(s) == [state |-> s, error |-> ""]

\* src line 135: st.session_state["zip_bytes"] = download_zip_bytes(file_url)
StageDownload(run, response) ==
    IF response.error # "" THEN [run EXCEPT !.error = response.error]
    ELSE [run EXCEPT !.state.zip_bytes = response.content]

\* src line 136: st.session_state["csv_text"] = extract_csv_from_zipbytes(...)
StageExtract(run, fname) ==
    IF run.error # "" THEN run
    ELSE LET csv == ExtractCsvFromZipbytes(ZipFile(run.state.zip_bytes),
                                           ExpectedCsvName(fname))
         IN  IF csv.raised # "" THEN [run EXCEPT !.error = csv.raised]
             ELSE [run EXCEPT !.state.csv_text = csv.text]

\* src lines 137-138: the three results are assigned once the parse returned
StageParse(run, res) ==
    IF run.error # "" THEN run
    ELSE IF res.raised # "" THEN [run EXCEPT !.error = res.raised]
    ELSE [run EXCEPT !.state.min_res = res.min_res,
                     !.state.max_res = res.max_res,
                     !.state.df_map = res.df_map,
                     !.state.data_loaded = TRUE]

\* src lines 143-166: the download button, the heading and the two boxes
Render(s, error) ==
    IF s.data_loaded
    THEN [shown |-> TRUE, error |-> error,
          file_name |-> BuildFilenameForDate(s.date_selected),
          data |-> s.zip_bytes,
          heading |-> YmdDotted(s.date_selected),
          max |-> s.max_res, min |-> s.min_res]
    ELSE [shown |-> FALSE, error |-> error,
          file_name |-> <<>>, data |-> NoBytes, heading |-> <<>>,
          max |-> NoResult, min |-> NoResult]

\* src line 128: st.session_state["date_selected"] = date_selected
SetDate(s, date_selected) == [s EXCEPT !.date_selected = date_selected]

\* the first run of the script, the picker at its default date
InitApp ==
    /\ pc = "app" /\ args = <<>> /\ ret = <<>>
    /\ picker \in Dates
    /\ ss = SetDate(FreshSession, picker)
    /\ page = Render(ss, "")

\* the user picks another date: the script reruns, the button not pressed
ChangeDate ==
    \E d \in Dates :
        /\ d # picker
        /\ picker' = d
        /\ ss' = SetDate(ss, d)
        /\ page' = Render(ss', "")
        /\ UNCHANGED <<pc, args, ret>>

\* the user presses the button: the script reruns and fetches
PressButton ==
    \E response \in Responses(picker) :
    \E fname \in {BuildFilenameForDate(picker)} :
    \E downloaded \in {StageDownload(NoError(SetDate(ss, picker)), response)} :
    \E extracted \in {StageExtract(downloaded, fname)} :
    \E res \in {ParseAndFindExtremes(extracted.state.csv_text)} :
    \E parsed \in {StageParse(extracted, res)} :
        /\ ss' = parsed.state
        /\ page' = Render(parsed.state, parsed.error)
        /\ UNCHANGED <<pc, args, ret, picker>>

NextApp == ChangeDate \/ PressButton

SpecApp == InitApp /\ [][NextApp]_vars

\* C9: whenever extremes are rendered, the date of the heading and of the
\* download file name is the date the held zip bytes were fetched for.
C9_HeadingIsFetchedDate ==
    page.shown =>
        /\ page.heading = YmdDotted(page.data.date)
        /\ page.file_name = BuildFilenameForDate(page.data.date)

\* C10, for a run that starts with a report held: a run that fails leaves
\* the held zip_bytes, csv_text, min_res, max_res, df_map and data_loaded as
\* they were.
C10_FailedRunChangesNothing ==
    [][(ss.data_loaded /\ page'.error # "") =>
          /\ ss'.zip_bytes = ss.zip_bytes
          /\ ss'.csv_text = ss.csv_text
          /\ ss'.min_res = ss.min_res
          /\ ss'.max_res = ss.max_res
          /\ ss'.df_map = ss.df_map
          /\ ss'.data_loaded = ss.data_loaded]_vars

=============================================================================
